---- MODULE Spec2Model ----
(***************************************************************************)
(* A model of src/awslog.py: ZappaCLI.tail, the loop that polls the        *)
(* CloudWatch Logs backend, merges the events of one or several log        *)
(* groups, filters them against the watermark last_since, prints them and  *)
(* advances the watermark; ZappaCLI.fetch_logs, the pagination loop of one *)
(* fetch, with the two listings of a group's streams; ZappaCLI.print_logs  *)
(* with is_metadata_log; the resolution of the identifier to log groups;   *)
(* string_to_timestamp and the duration parser it uses; and the handling   *)
(* of KeyboardInterrupt and of the exceptions that leave tail.             *)
(*                                                                         *)
(* Time is counted in the unit of int(time.time()) * 1000, one second      *)
(* written in milliseconds; event timestamps lie on the same grid.  The    *)
(* backend (boto3) is outside the repository: it answers a query with any  *)
(* timestamp-ordered sequence of events inside the requested window, cut   *)
(* into a first page and a remainder that its continuation token stands    *)
(* for.  Texts that are parsed are sequences of one-character strings.     *)
(*                                                                         *)
(* Spec is the whole run.  SpecResolve, SpecParse, SpecStreams, SpecMerge  *)
(* and SpecRender follow one step of it (the resolution, the parsing of    *)
(* the bounds, the listing of the streams, the merge, the rendering) from  *)
(* every input of a bounded set.                                           *)
(***************************************************************************)
EXTENDS Integers, Sequences, FiniteSets, TLC

\* ------------------------------------------------------------------ bounds
\* The largest clock reading and event timestamp.
MaxTime == 3
\* The most events the backend reports to the queries of one pass (over all
\* the pages of all its answers).
MaxEvents == 2
\* The most passes of the tail loop that are followed.
MaxPasses == 2

\* The most events one group contributes to a merge (SpecMerge).
MaxPerGroup == 2

\* The most streams a group has in a listing (SpecStreams).
MaxStreams == 2

\* ------------------------------------------------------- values and inputs
\* Python's None for an optional integer (to_stamp, end_time).
None == -1

\* The value of --to when the option is absent (argparse default=None).
NoTo == <<"None">>

\* The log groups describe_log_groups returns, in backend order.
LogGroups == <<"ga", "gb", "gab">>

\* .awslog_config.json as load_config returns it: one log set of two groups.
Config == [set1 |-> <<[name |-> "ga", alias |-> "A"], [name |-> "gb", alias |-> "B"]>>]

\* The characters of the names and identifiers that take part in `in` tests.
Chars(s) ==
    CASE s = "ga" -> <<"g", "a">>
      [] s = "gb" -> <<"g", "b">>
      [] s = "gab" -> <<"g", "a", "b">>
      [] s = "g" -> <<"g">>
      [] s = "a" -> <<"a">>
      [] s = "z" -> <<"z">>
      [] s = "set1" -> <<"s", "e", "t", "1">>
      [] OTHER -> <<>>

\* The words of the messages the backend holds.
Words(m) ==
    CASE m = "hello" -> <<"hello">>
      [] m = "START RequestId: 1" -> <<"START", "RequestId", ":", "1">>
      [] m = "END RequestId: 1" -> <<"END", "RequestId", ":", "1">>
      [] m = "REPORT RequestId: 1" -> <<"REPORT", "RequestId", ":", "1">>
      [] m = "INFO START RequestId: 2" -> <<"INFO", "START", "RequestId", ":", "2">>
      [] OTHER -> <<>>

\* The messages of the events the backend returns in Spec and SpecMerge.
Messages == {"hello", "END RequestId: 1"}

\* The messages print_logs is given in SpecRender: the three lifecycle
\* markers of a Lambda invocation, a line that holds one inside, and a line
\* without.
AllMessages ==
    {"hello", "START RequestId: 1", "END RequestId: 1", "REPORT RequestId: 1",
     "INFO START RequestId: 2"}

\* The identifier on the command line: the name of one group, a part of the
\* names of all three, and the name of the log set.
Identifiers == {"gb", "g", "set1"}

\* What the operator types at the prompt of find_log_group.
Choices == {"0", "1", "5", "x"}

\* The identifiers and the answers to the prompt that SpecResolve goes
\* through: identifiers that no, one, two and three groups contain; answers
\* that are in range, too large, negative, not a number, and empty.
ResolveIdentifiers == {"z", "gb", "a", "ga", "g", "set1"}
ResolveChoices == {"0", "1", "2", "5", "-1", "x", ""}

\* --since and --to as given on the command line.
Sinces == {<<"1", "s">>, <<"b", "o", "g", "u", "s">>}
Tos == {NoTo, <<"0", "s">>}

\* ----------------------------------------------------------------- helpers
Range(s) == {s[i] : i \in 1..Len(s)}

\* Python's `needle in hay` on sequences of characters or words.
IsInfix(needle, hay) ==
    \E i \in 0..(Len(hay) - Len(needle)) :
        \A j \in 1..Len(needle) : hay[i + j] = needle[j]

\* Python's truth value of an optional integer: None and 0 are false.
Truthy(x) == x # None /\ x # 0

MaxOf(S) == CHOOSE x \in S : \A y \in S : y <= x

Timestamps(evs) == {evs[i].timestamp : i \in 1..Len(evs)}

\* The newest timestamp among `evs` and the ones seen before (None if none).
Newest(evs, so_far) == MaxOf(Timestamps(evs) \cup {so_far})

\* Milliseconds per second: the factor of lines 212, 213 and 379.
Ms == 1000

\* ------------------------------------------------------------------- state
VARIABLES
    pc,               \* where the run is: start, parse, loop, fetch_logs, ...
    error,            \* the exception that ended the run, "" while there is none
    exit_status,      \* <<>> while the process runs, then <<what it exits with>>
    exact,            \* tail's parameters
    use_set,
    keep_open,
    use_paginate,
    to,
    since,
    identifier,       \* tail's parameter ("" before the call)
    choice,           \* find_log_group: what input() returned ("" if not called)
    listed,           \* find_log_group: the candidates it printed
    prompts,          \* history: calls of input()
    resolves,         \* history: calls of find_log_group and of
                      \* get_log_group_names_from_log_set
    interrupts,       \* history: KeyboardInterrupts raised
    log_group_name,   \* the group being fetched ("" before resolution)
    log_group_names,  \* the groups of the log set
    log_set_name,     \* self.log_set_name ("" when no set is tailed)
    gi,               \* position of the for loop of line 227 in log_group_names
    since_stamp,
    to_stamp,
    last_since,       \* the watermark
    new_logs,
    start_time,       \* fetch_logs: parameter and locals
    end_time,
    events,
    response,
    clock,            \* the last reading of int(time.time())
    utcnow,           \* the last reading of datetime.now(utc), in milliseconds
    logs,             \* print_logs: the parameter of its last call
    drawn,            \* what print_logs wrote in its last call
    passes,           \* history: passes of the while loop begun
    renders,          \* history: calls of print_logs
    slept,            \* history: calls of time.sleep
    pass_since,       \* history: last_since when the current pass began
    requests,         \* history: the filter_log_events calls of the current pass
    answered,         \* history: events the backend reported in the current pass
    missed,           \* history: events of this pass left behind a continuation token
    passed,           \* history: the newest timestamp line 244 has let through
    handed,           \* history: the newest timestamp print_logs was given
    advances,         \* history: executions of line 250
    fetches,          \* history: the fetch_logs calls of the current pass
    log_streams,      \* the backend: the pages describe_log_streams returns
    all_names         \* fetch_logs: the stream names of the last listing

vars == <<pc, error, exit_status, exact, use_set, keep_open, to, since, utcnow, identifier, choice, listed,
          prompts, resolves, interrupts, log_group_name, log_group_names,
          log_set_name, gi, since_stamp, to_stamp, last_since, new_logs, start_time, end_time,
          events, response, clock, logs, drawn, passes, renders, slept, pass_since,
          requests, answered, missed, passed, handed, advances, fetches,
          use_paginate, log_streams, all_names>>

args == <<exact, use_set, keep_open, use_paginate, to, since>>
resolution == <<identifier, choice, listed, prompts, resolves>>
targets == <<log_group_name, log_group_names, log_set_name, gi>>
bounds == <<since_stamp, to_stamp>>
call == <<start_time, end_time, events, response>>
output == <<logs, drawn>>
history == <<passes, renders, slept, pass_since, requests, answered, missed>>

\* response = {} of line 365.
NoResponse == [set |-> FALSE, events |-> <<>>, nextToken |-> <<>>]

\* "nextToken" in response
HasToken(r) == r.set /\ r.nextToken # <<>>

\* ------------------------------------------------------- source resolution
\* int(choice) of line 295: the texts it takes, and what it makes of them.
IsNumeric(text) == text \in {"0", "1", "2", "5", "-1"}

IntOf(text) ==
    CASE text = "0" -> 0
      [] text = "1" -> 1
      [] text = "2" -> 2
      [] text = "5" -> 5
      [] text = "-1" -> 0 - 1
      [] OTHER -> 0

\* Lines 280-283.
Candidates(id) ==
    SelectSeq(LogGroups, LAMBDA n : IsInfix(Chars(id), Chars(n)))

\* Lines 285-286: the lines "[i] name" printed, i from enumerate().
Listing(candidates) ==
    [i \in 1..Len(candidates) |-> [index |-> i - 1, logGroupName |-> candidates[i]]]

\* The check of line 299 with its bounds the other way round.
InRange_wrong(number, candidates) == number < 0 \/ number > Len(candidates)

\* Line 299, negated: the number picks one of the candidates.
InRange(number, candidates) == ~(number < 0 \/ number >= Len(candidates))

\* find_log_group: the group name, or the exception it raises; `typed` is
\* what input() returns if it is called.
find_log_group(id, typed) ==
    LET candidates == Candidates(id)
        shown == Listing(candidates)
    IN  IF Len(candidates) = 0
        THEN [ok |-> FALSE, name |-> "", error |-> "No log groups found",
              listed |-> shown, prompted |-> FALSE]
        ELSE IF Len(candidates) = 1
        THEN [ok |-> TRUE, name |-> candidates[1], error |-> "",
              listed |-> shown, prompted |-> FALSE]
        ELSE IF ~IsNumeric(typed)
        THEN [ok |-> FALSE, name |-> "", error |-> "Invalid choice",
              listed |-> shown, prompted |-> TRUE]
        ELSE IF ~InRange(IntOf(typed), candidates)
        THEN [ok |-> FALSE, name |-> "", error |-> "Invalid choice",
              listed |-> shown, prompted |-> TRUE]
        ELSE [ok |-> TRUE, name |-> candidates[IntOf(typed) + 1], error |-> "",
              listed |-> shown, prompted |-> TRUE]

\* get_log_group_names_from_log_set
get_log_group_names_from_log_set(set_name) ==
    IF set_name \notin DOMAIN Config
    THEN [ok |-> FALSE, names |-> <<>>, error |-> "Log set not found in config file"]
    ELSE [ok |-> TRUE,
          names |-> [i \in 1..Len(Config[set_name]) |-> Config[set_name][i].name],
          error |-> ""]

\* get_log_group_alias
get_log_group_alias(set_name, name) ==
    LET log_set == Config[set_name]
        i == CHOOSE k \in 1..Len(log_set) :
                 /\ log_set[k].name = name
                 /\ \A j \in 1..(k - 1) : log_set[j].name # name
    IN  log_set[i].alias

\* The branch lines 201-209 take: "exact", "find", "set" or "raise".
Branch(exact_, use_set_) ==
    IF exact_ /\ ~use_set_ THEN "exact"
    ELSE IF ~exact_ /\ ~use_set_ THEN "find"
    ELSE IF use_set_ THEN "set"
    ELSE "raise"

\* ------------------------------------------------------------ pure steps
\* A text (--since, --to) is the sequence of its characters.  Time in
\* durationpy_from_str and string_to_timestamp is counted in milliseconds:
\* the durations and the clock readings of the model are whole milliseconds.
Digits == {"0", "1", "2", "3", "4", "5", "6", "7", "8", "9"}

\* [\d\.] of line 54.
ValueChars == Digits \cup {"."}

\* [a-z] of line 54 (the two micro signs of the pattern are in no input here).
Letters ==
    {"a", "b", "c", "d", "e", "f", "g", "h", "i", "j", "k", "l", "m", "n", "o", "p", "q",
     "r", "s", "t", "u", "v", "w", "x", "y", "z"}

DigitValue(c) ==
    CASE c = "0" -> 0 [] c = "1" -> 1 [] c = "2" -> 2 [] c = "3" -> 3 [] c = "4" -> 4
      [] c = "5" -> 5 [] c = "6" -> 6 [] c = "7" -> 7 [] c = "8" -> 8 [] c = "9" -> 9

\* int() of a run of digits; 0 for the empty run.
RECURSIVE IntOfDigits(_)
IntOfDigits(run) ==
    IF run = <<>> THEN 0
    ELSE 10 * IntOfDigits(SubSeq(run, 1, Len(run) - 1)) + DigitValue(run[Len(run)])

RECURSIVE PowerOfTen(_)
PowerOfTen(n) == IF n = 0 THEN 1 ELSE 10 * PowerOfTen(n - 1)

\* The keys of `units` (lines 35-48), without the two spellings with a micro
\* sign.
KnownUnits ==
    {<<"n", "s">>, <<"u", "s">>, <<"m", "s">>, <<"s">>, <<"m">>, <<"h">>, <<"d">>, <<"w">>,
     <<"m", "m">>, <<"y">>}

\* The sizes of lines 24-33 in milliseconds, for the units that are no
\* smaller than one.
MillisecondSize == 1
SecondSize == 1000 * MillisecondSize
MinuteSize == 60 * SecondSize
HourSize == 60 * MinuteSize
DaySize == 24 * HourSize

UnitSize(unit) ==
    CASE unit = <<"m", "s">> -> MillisecondSize
      [] unit = <<"s">> -> SecondSize
      [] unit = <<"m">> -> MinuteSize
      [] unit = <<"h">> -> HourSize
      [] unit = <<"d">> -> DaySize
      [] unit = <<"w">> -> 7 * DaySize
      [] unit = <<"m", "m">> -> 30 * DaySize
      [] unit = <<"y">> -> 365 * DaySize

\* Where the run of characters of `class` that starts at i ends (i - 1 when
\* it is empty).
RunEnd(text, i, class) ==
    CHOOSE j \in (i - 1)..Len(text) :
        /\ \A k \in i..j : text[k] \in class
        /\ j = Len(text) \/ text[j + 1] \notin class

\* pattern.findall(duration) of line 57 from position i on: the runs of
\* [\d\.] that a run of [a-z] follows at once, each with that run; all
\* other characters are passed over.
RECURSIVE FindAllFrom(_, _)
FindAllFrom(text, i) ==
    IF i > Len(text) THEN <<>>
    ELSE IF text[i] \notin ValueChars THEN FindAllFrom(text, i + 1)
    ELSE LET j == RunEnd(text, i, ValueChars)
             k == RunEnd(text, j + 1, Letters)
         IN  IF k = j THEN FindAllFrom(text, j + 1)
             ELSE <<[value |-> SubSeq(text, i, j), unit |-> SubSeq(text, j + 1, k)]>>
                      \o FindAllFrom(text, k + 1)

\* Whether float(value) of line 66 returns: digits with at most one point.
FloatOk(value) ==
    /\ Cardinality({i \in 1..Len(value) : value[i] = "."}) <= 1
    /\ \E i \in 1..Len(value) : value[i] \in Digits

\* float(value) * units[unit] of line 66, in milliseconds (exact when the
\* product is a whole number of them).
ValueTimes(value, size) ==
    LET point == IF \E i \in 1..Len(value) : value[i] = "."
                 THEN CHOOSE i \in 1..Len(value) : value[i] = "."
                 ELSE Len(value) + 1
        whole == SubSeq(value, 1, point - 1)
        part == SubSeq(value, point + 1, Len(value))
    IN  IntOfDigits(whole) * size + (IntOfDigits(part) * size) \div PowerOfTen(Len(part))

RECURSIVE TotalOf(_)
TotalOf(matches) ==
    IF matches = <<>> THEN 0
    ELSE TotalOf(SubSeq(matches, 1, Len(matches) - 1))
             + ValueTimes(matches[Len(matches)].value, UnitSize(matches[Len(matches)].unit))

\* The texts of line 51.
ZeroForms == {<<"0">>, <<"+", "0">>, <<"-", "0">>}

\* durationpy_from_str: the timedelta in milliseconds, or ok = FALSE when it
\* raises (duration[0] of the empty text, no match, an unknown unit, a value
\* float() refuses).
durationpy_from_str(duration) ==
    IF duration \in ZeroForms THEN [ok |-> TRUE, delta |-> 0]
    ELSE IF duration = <<>> THEN [ok |-> FALSE, delta |-> 0]
    ELSE LET sign == IF duration[1] = "-" THEN 0 - 1 ELSE 1
             matches == FindAllFrom(duration, 1)
         IN  IF Len(matches) = 0 THEN [ok |-> FALSE, delta |-> 0]
             ELSE IF \E i \in 1..Len(matches) :
                        matches[i].unit \notin KnownUnits \/ ~FloatOk(matches[i].value)
             THEN [ok |-> FALSE, delta |-> 0]
             ELSE [ok |-> TRUE, delta |-> sign * TotalOf(matches)]

\* The shape "%Y-%m-%d/%H:%M:%S" with all fields at full width.
HasShape(text) ==
    /\ Len(text) = 19
    /\ \A i \in 1..19 :
          IF i \in {5, 8} THEN text[i] = "-"
          ELSE IF i = 11 THEN text[i] = "/"
          ELSE IF i \in {14, 17} THEN text[i] = ":"
          ELSE text[i] \in Digits

Field(text, from, upto) == IntOfDigits(SubSeq(text, from, upto))

IsLeap(year) == (year % 4 = 0 /\ year % 100 # 0) \/ year % 400 = 0

DaysIn(year, month) ==
    IF month = 2 THEN (IF IsLeap(year) THEN 29 ELSE 28)
    ELSE IF month \in {4, 6, 9, 11} THEN 30 ELSE 31

\* Lines 90-91, datetime.strptime(timestring, "%Y-%m-%d/%H:%M:%S") and
\* datetime.datetime(*past[:6]): the fields, or ok = FALSE when one of the
\* two raises ValueError.
strptime(text) ==
    IF ~HasShape(text) THEN [ok |-> FALSE]
    ELSE LET year == Field(text, 1, 4)
             month == Field(text, 6, 7)
             day == Field(text, 9, 10)
             hour == Field(text, 12, 13)
             minute == Field(text, 15, 16)
             second == Field(text, 18, 19)
         IN  IF /\ year >= 1 /\ month \in 1..12 /\ day >= 1 /\ day <= DaysIn(year, month)
                /\ hour <= 23 /\ minute <= 59 /\ second <= 59
             THEN [ok |-> TRUE, year |-> year, month |-> month, day |-> day,
                   hour |-> hour, minute |-> minute, second |-> second]
             ELSE [ok |-> FALSE]

RECURSIVE DaysSinceEpoch(_, _, _)
DaysSinceEpoch(year, month, day) ==
    IF year > 1970 THEN (IF IsLeap(year - 1) THEN 366 ELSE 365) + DaysSinceEpoch(year - 1, month, day)
    ELSE IF month > 1 THEN DaysIn(1970, month - 1) + DaysSinceEpoch(year, month - 1, day)
    ELSE day - 1

\* int(datetime.datetime(*past[:6]).timestamp()) of line 91, on a host whose
\* local time is UTC, for dates from 1970 on.
EpochSeconds(t) ==
    LET leap == IF IsLeap(t.year) /\ t.month > 2 THEN 1 ELSE 0
    IN  (DaysSinceEpoch(t.year, t.month, t.day) + leap) * 86400
            + t.hour * 3600 + t.minute * 60 + t.second

\* The instant of lines 86-87 with the duration added where it is taken off.
string_to_timestamp_added(timestring, now) ==
    LET d == durationpy_from_str(timestring)
        parsed == strptime(timestring)
    IN  IF d.ok
        THEN LET ts == (now + d.delta) \div SecondSize
             IN  [ok |-> TRUE, ts |-> IF ts # 0 THEN ts ELSE 0, timed |-> TRUE]
        ELSE IF parsed.ok
        THEN LET ts == EpochSeconds(parsed)
             IN  [ok |-> TRUE, ts |-> IF ts # 0 THEN ts ELSE 0, timed |-> FALSE]
        ELSE [ok |-> FALSE, ts |-> 0, timed |-> FALSE]

\* string_to_timestamp: the epoch seconds it returns, or ok = FALSE when the
\* ValueError of strptime leaves it.  `now` is datetime.now(utc) in
\* milliseconds, read (timed) only when the text is a duration;
\* calendar.timegm of the time tuple drops what is below the second.
string_to_timestamp(timestring, now) ==
    LET d == durationpy_from_str(timestring)
        parsed == strptime(timestring)
    IN  IF d.ok
        THEN LET ts == (now - d.delta) \div SecondSize
             IN  [ok |-> TRUE, ts |-> IF ts # 0 THEN ts ELSE 0, timed |-> TRUE]
        ELSE IF parsed.ok
        THEN LET ts == EpochSeconds(parsed)
             IN  [ok |-> TRUE, ts |-> IF ts # 0 THEN ts ELSE 0, timed |-> FALSE]
        ELSE [ok |-> FALSE, ts |-> 0, timed |-> FALSE]

\* Only START and REPORT are looked for.
is_metadata_log_noEnd(message) ==
    IF IsInfix(<<"START", "RequestId">>, Words(message)) THEN TRUE
    ELSE IF IsInfix(<<"REPORT", "RequestId">>, Words(message)) THEN TRUE
    ELSE FALSE

\* is_metadata_log, lines 400-410.
is_metadata_log(message) ==
    IF IsInfix(<<"START", "RequestId">>, Words(message)) THEN TRUE
    ELSE IF IsInfix(<<"REPORT", "RequestId">>, Words(message)) THEN TRUE
    ELSE IF IsInfix(<<"END", "RequestId">>, Words(message)) THEN TRUE
    ELSE FALSE

\* A merge that puts an event before the events of its timestamp.
RECURSIVE InsertByTimestamp_before(_, _)
InsertByTimestamp_before(sorted, e) ==
    IF sorted = <<>> THEN <<e>>
    ELSE IF sorted[Len(sorted)].timestamp < e.timestamp THEN Append(sorted, e)
    ELSE Append(InsertByTimestamp_before(SubSeq(sorted, 1, Len(sorted) - 1), e),
                sorted[Len(sorted)])

\* Insertion of e after every element whose timestamp is not larger.
RECURSIVE InsertByTimestamp(_, _)
InsertByTimestamp(sorted, e) ==
    IF sorted = <<>> THEN <<e>>
    ELSE IF sorted[Len(sorted)].timestamp <= e.timestamp THEN Append(sorted, e)
    ELSE Append(InsertByTimestamp(SubSeq(sorted, 1, Len(sorted) - 1), e),
                sorted[Len(sorted)])

\* No sorting: the sequence as it came.
SortedByTimestamp_not(seq) == seq

\* sorted(seq, key=lambda k: k["timestamp"]): Python's sort is stable.
RECURSIVE SortedByTimestamp(_)
SortedByTimestamp(seq) ==
    IF seq = <<>> THEN <<>>
    ELSE InsertByTimestamp(SortedByTimestamp(SubSeq(seq, 1, Len(seq) - 1)),
                           seq[Len(seq)])

\* Lines 237-238: log["log_group_name"] = log_group_name.
Tagged(evs, name) ==
    [i \in 1..Len(evs) |->
        [timestamp |-> evs[i].timestamp, message |-> evs[i].message,
         log_group_name |-> name]]

\* A slip at line 244: >= where > is meant.
NewerThan_inclusive(evs, mark) == SelectSeq(evs, LAMBDA e : e.timestamp >= mark)

\* Line 244: [e for e in new_logs if e["timestamp"] > last_since].
NewerThan(evs, mark) == SelectSeq(evs, LAMBDA e : e.timestamp > mark)

\* A slip at line 251: the first of the new events where the newest is meant.
Advanced_first(evs, mark) ==
    IF evs # <<>> THEN evs[1].timestamp ELSE mark

\* A slip at line 251: since_stamp where last_since is meant.
Advanced_resets(evs, mark) ==
    IF evs # <<>> THEN MaxOf(Timestamps(evs)) ELSE since_stamp

\* Lines 250-252: the watermark after the pass.
Advanced(evs, mark) ==
    IF evs # <<>> THEN MaxOf(Timestamps(evs)) ELSE mark

\* A slip at line 254: `and` where `or` is meant.
Breaks_both(keep_open_, to_) == (~keep_open_) /\ (to_ # NoTo)

\* Line 254: whether the loop is left after the pass.
Breaks(keep_open_, to_) == (~keep_open_) \/ (to_ # NoTo)

\* print_logs: the lines written, one per event that is not a metadata log,
\* with the alias of its group when a log set is tailed.
print_logs(evs, set_name) ==
    LET shown == SelectSeq(evs, LAMBDA e : ~is_metadata_log(e.message))
    IN  [i \in 1..Len(shown) |->
            [timestamp |-> shown[i].timestamp, message |-> shown[i].message,
             alias |-> IF "log_group_name" \in DOMAIN shown[i]
                       THEN get_log_group_alias(set_name, shown[i].log_group_name)
                       ELSE ""]]

\* ------------------------------------------------------------- the backend
\* The events a query for [lo, hi] may match.
Matching(lo, hi) ==
    [timestamp : {t * Ms : t \in 1..MaxTime} \cap lo..hi, message : Messages]

IsOrdered(seq) ==
    \A i \in 1..(Len(seq) - 1) : seq[i].timestamp <= seq[i + 1].timestamp

\* The sequences of at most `most` events of E in timestamp order.
OrderedSeqs(E, most) ==
    {seq \in UNION {[1..n -> E] : n \in 0..most} : IsOrdered(seq)}

\* filter_log_events: what the backend holds for a query, in its order; at
\* most `most` events.
Answers(lo, hi, most) == OrderedSeqs(Matching(lo, hi), most)

\* ------------------------------------------------------- the stream listing
\* The names of the streams of a group, by their place in the listing.
StreamNames == <<"s1", "s2", "s3", "s4">>

\* What describe_log_streams returns for the groups of the examples: one
\* page with one stream.
OneStream ==
    <<<<[logStreamName |-> StreamNames[1], firstEventTimestamp |-> Ms,
         lastEventTimestamp |-> Ms]>>>>

\* Lines 313 and 347: the names of the streams, in their order.
NamesOf(streams) == [i \in 1..Len(streams) |-> streams[i].logStreamName]

\* _fetch_log_stream_names_single, lines 304-314: one request, limit=50;
\* `pages` are the pages of that size, so the answer is the first of them.
fetch_log_stream_names_single(pages) ==
    [ok |-> TRUE, names |-> NamesOf(pages[1])]

\* The loop of lines 319-344 from page i on; all_streams is what the pages
\* before it added.
RECURSIVE PaginatedFrom(_, _, _, _, _)
PaginatedFrom(pages, i, start_time_, end_time_, all_streams) ==
    IF i > Len(pages)
    THEN [ok |-> TRUE, names |-> NamesOf(all_streams)]
    ELSE LET page == pages[i]
         IN  IF page = <<>>
             THEN [ok |-> FALSE, names |-> <<>>]
             ELSE IF Truthy(start_time_) /\ page[1].firstEventTimestamp < start_time_
             THEN [ok |-> TRUE, names |-> NamesOf(all_streams)]
             ELSE IF Truthy(end_time_) /\ page[Len(page)].lastEventTimestamp > end_time_
             THEN PaginatedFrom(pages, i + 1, start_time_, end_time_, all_streams)
             ELSE PaginatedFrom(pages, i + 1, start_time_, end_time_, all_streams \o page)

\* _fetch_log_stream_names_paginated, lines 316-349.  The print of lines
\* 321-330 reads page["logStreams"][0] before the length is looked at, so a
\* page without streams raises IndexError (ok is FALSE).
fetch_log_stream_names_paginated(pages, start_time_, end_time_) ==
    PaginatedFrom(pages, 1, start_time_, end_time_, <<>>)

\* Lines 367-370 and 373-375: the listing fetch_logs was told to use.
fetch_log_stream_names(paginate, pages, start_time_, end_time_) ==
    IF paginate
    THEN fetch_log_stream_names_paginated(pages, start_time_, end_time_)
    ELSE fetch_log_stream_names_single(pages)

\* ------------------------------------------------------------------- steps
Init ==
    /\ pc = "start"
    /\ error = ""
    /\ exit_status = <<>>
    /\ exact = FALSE
    /\ use_set = FALSE
    /\ keep_open = TRUE
    /\ use_paginate = FALSE
    /\ to = NoTo
    /\ since = <<>>
    /\ utcnow = None
    /\ identifier = ""
    /\ choice = ""
    /\ listed = <<>>
    /\ prompts = 0
    /\ resolves = 0
    /\ interrupts = 0
    /\ log_group_name = ""
    /\ log_group_names = <<>>
    /\ log_set_name = ""
    /\ gi = 0
    /\ since_stamp = None
    /\ to_stamp = None
    /\ last_since = None
    /\ new_logs = <<>>
    /\ start_time = None
    /\ end_time = None
    /\ events = <<>>
    /\ response = NoResponse
    /\ clock = 2
    /\ logs = <<>>
    /\ drawn = <<>>
    /\ passes = 0
    /\ renders = 0
    /\ slept = 0
    /\ pass_since = None
    /\ requests = <<>>
    /\ answered = 0
    /\ missed = {}
    /\ passed = None
    /\ handed = None
    /\ advances = 0
    /\ log_streams = OneStream
    /\ all_names = <<>>
    /\ fetches = <<>>

\* The errors of the backend calls of fetch_logs.
BackendErrors == {"describe_log_streams", "filter_log_events"}

\* An exception that leaves tail: only KeyboardInterrupt is caught (line 258).
\* The handler of lines 585-594 prints the traceback and exits with -1.
Raise(what) ==
    /\ pc' = "raised"
    /\ error' = what
    /\ exit_status' = <<0 - 1>>

\* No exception: the run goes on at `label`.
Goto(label) ==
    /\ pc' = label
    /\ error' = error
    /\ exit_status' = exit_status

\* tail is called; lines 201-209 resolve the identifier.
\* `typed` is what the operator answers if find_log_group asks.
tail(identifier_, typed, since_, exact_, use_set_, keep_open_, to_, use_paginate_) ==
    /\ pc = "start"
    /\ identifier' = identifier_
    /\ since' = since_
    /\ exact' = exact_
    /\ use_set' = use_set_
    /\ keep_open' = keep_open_
    /\ use_paginate' = use_paginate_
    /\ resolves' = IF Branch(exact_, use_set_) \in {"find", "set"}
                 THEN resolves + 1
                 ELSE resolves
    /\ to' = to_
    /\ LET branch == Branch(exact_, use_set_)
           found == find_log_group(identifier_, typed)
           members == get_log_group_names_from_log_set(identifier_)
       IN  CASE branch = "exact" ->
                    /\ log_group_name' = identifier_
                    /\ Goto("parse")
                    /\ UNCHANGED <<choice, listed, prompts, log_group_names,
                                   log_set_name>>
             [] branch = "find" ->
                    /\ listed' = found.listed
                    /\ choice' = IF found.prompted THEN typed ELSE choice
                    /\ prompts' = IF found.prompted THEN prompts + 1 ELSE prompts
                    /\ log_group_name' = found.name
                    /\ IF found.ok
                       THEN Goto("parse")
                       ELSE Raise(found.error)
                    /\ UNCHANGED <<log_group_names, log_set_name>>
             [] branch = "set" ->
                    /\ log_set_name' = identifier_
                    /\ log_group_names' = members.names
                    /\ IF members.ok
                       THEN Goto("parse")
                       ELSE Raise(members.error)
                    /\ UNCHANGED <<choice, listed, prompts, log_group_name>>
             [] OTHER ->
                    /\ Raise("Invalid combination of arguments.")
                    /\ UNCHANGED <<choice, listed, prompts, log_group_name,
                                   log_group_names, log_set_name>>
    /\ UNCHANGED <<interrupts, utcnow, gi, bounds, last_since, new_logs, call, clock,
                   output,
                   history>>
    /\ UNCHANGED <<passed, handed, advances, fetches>>
    /\ UNCHANGED <<log_streams, all_names>>

\* Lines 212-214: the bounds are parsed and the watermark is set.  `part` is
\* what datetime.now(utc) shows below the second, in milliseconds.
ParseBounds(part) ==
    /\ pc = "parse"
    /\ LET now == clock * Ms + part
           lower == string_to_timestamp(since, now)
           upper == string_to_timestamp(to, now)
           no_to == to \in {NoTo, <<>>}
       IN  /\ utcnow' = IF lower.timed \/ (lower.ok /\ ~no_to /\ upper.timed)
                         THEN now
                         ELSE utcnow
           /\ IF lower.ok /\ (no_to \/ upper.ok)
              THEN /\ since_stamp' = lower.ts * Ms
                   /\ to_stamp' = IF no_to THEN None ELSE upper.ts * Ms
                   /\ last_since' = since_stamp'
                   /\ Goto("loop")
              ELSE /\ Raise("ValueError")
                   /\ UNCHANGED <<bounds, last_since>>
    /\ UNCHANGED <<args, resolution, interrupts, targets, new_logs, call, clock, output,
                   history>>
    /\ UNCHANGED <<passed, handed, advances, fetches>>
    /\ UNCHANGED <<log_streams, all_names>>

\* fetch_logs entered with the first lower bound in place of the watermark.
EnterFetch_fromSince(name) ==
    /\ log_group_name' = name
    /\ start_time' = since_stamp
    /\ end_time' = to_stamp
    /\ fetches' = Append(IF pc = "loop" THEN <<>> ELSE fetches,
                         [log_group_name |-> name, start_time |-> since_stamp,
                          end_time |-> to_stamp])
    /\ events' = <<>>
    /\ response' = NoResponse
    /\ pc' = "fetch_logs"

\* fetch_logs is entered for group `name` (lines 217-224, 228-235, 364-370).
EnterFetch(name) ==
    /\ log_group_name' = name
    /\ start_time' = last_since
    /\ end_time' = to_stamp
    /\ fetches' = Append(IF pc = "loop" THEN <<>> ELSE fetches,
                         [log_group_name |-> name, start_time |-> last_since,
                          end_time |-> to_stamp])
    /\ events' = <<>>
    /\ response' = NoResponse
    /\ pc' = "fetch_logs"

\* The resolution of lines 201-209 inside the while loop: every pass looks
\* the identifier up again, and asks again where it asked.
LoopTop_resolving ==
    /\ pc = "loop"
    /\ passes' = passes + 1
    /\ pass_since' = last_since
    /\ requests' = <<>>
    /\ answered' = 0
    /\ resolves' = IF Branch(exact, use_set) \in {"find", "set"}
                   THEN resolves + 1
                   ELSE resolves
    /\ prompts' = IF Branch(exact, use_set) = "find" /\
                     find_log_group(identifier, choice).prompted
                  THEN prompts + 1
                  ELSE prompts
    /\ IF ~use_set
       THEN EnterFetch(log_group_name) /\ gi' = gi
       ELSE IF log_group_names = <<>>
       THEN pc' = "sort" /\ gi' = 0 /\ fetches' = <<>> /\ UNCHANGED <<log_group_name, call>>
       ELSE EnterFetch(log_group_names[1]) /\ gi' = 1
    /\ UNCHANGED <<error, exit_status, args, identifier, choice, listed, interrupts,
                   utcnow, log_group_names, log_set_name, bounds, last_since,
                   new_logs, clock, output, renders, slept, missed>>
    /\ UNCHANGED <<passed, handed, advances>>
    /\ UNCHANGED <<log_streams, all_names>>

\* Line 215: a pass of the while loop begins with the first fetch.
LoopTop ==
    /\ pc = "loop"
    /\ passes' = passes + 1
    /\ pass_since' = last_since
    /\ requests' = <<>>
    /\ answered' = 0
    /\ IF ~use_set
       THEN EnterFetch(log_group_name) /\ gi' = gi
       ELSE IF log_group_names = <<>>
       THEN pc' = "sort" /\ gi' = 0 /\ fetches' = <<>> /\ UNCHANGED <<log_group_name, call>>
       ELSE EnterFetch(log_group_names[1]) /\ gi' = 1
    /\ UNCHANGED <<error, exit_status, args, resolution, interrupts, utcnow,
                   log_group_names, log_set_name, bounds, last_since,
                   new_logs, clock, output, renders, slept, missed>>
    /\ UNCHANGED <<passed, handed, advances>>
    /\ UNCHANGED <<log_streams, all_names>>

\* One round of the loop of lines 372-396: the streams are listed, the upper
\* bound is set if it is not, one page is asked for and added to events.
\* `now` is what time.time() returns and `k` the number of events on the page
\* the backend returns.
FetchRound(now, k) ==
    /\ pc = "fetch_logs"
    /\ now >= clock
    /\ LET reads == ~Truthy(end_time)
           upper == IF reads THEN now * Ms ELSE end_time
           listing == fetch_log_stream_names(use_paginate, log_streams, start_time, end_time)
       IN  /\ reads \/ now = clock
           /\ listing.ok
           /\ all_names' = listing.names
           /\ \E answer \in Answers(start_time, upper, MaxEvents - answered) :
                 LET whole == IF HasToken(response) THEN response.nextToken ELSE answer
                 IN  /\ HasToken(response) => answer = <<>>
                     /\ k \in 0..Len(whole)
                     /\ k = 0 => whole = <<>>
                     /\ response' = [set |-> TRUE,
                                     events |-> SubSeq(whole, 1, k),
                                     nextToken |-> SubSeq(whole, k + 1, Len(whole))]
                     /\ events' = events \o SubSeq(whole, 1, k)
                     /\ answered' = answered + Len(answer)
           /\ clock' = now
           /\ end_time' = upper
           /\ requests' = Append(requests,
                               [logGroupName |-> log_group_name,
                                startTime |-> start_time,
                                endTime |-> upper,
                                now |-> now,
                                nextToken |-> HasToken(response)])
           /\ pc' = IF Truthy(upper) THEN "fetch_return"
                     ELSE IF HasToken(response') THEN "fetch_logs"
                     ELSE "fetch_return"
    /\ UNCHANGED <<error, exit_status, args, resolution, interrupts, utcnow, targets,
                   bounds, last_since, new_logs, start_time,
                   output, passes, renders, slept, pass_since, missed>>
    /\ UNCHANGED <<passed, handed, advances, fetches>>
    /\ UNCHANGED <<log_streams>>

\* A handler that fetch_logs does not have: the exception is noted and the
\* pass goes on with what was fetched.
FetchRaises_swallowed(what) ==
    /\ pc = "fetch_logs"
    /\ error' = what
    /\ exit_status' = exit_status
    /\ pc' = "fetch_return"
    /\ UNCHANGED <<args, resolution, interrupts, utcnow, targets, bounds, last_since,
                   new_logs, call, clock, output,
                   history>>
    /\ UNCHANGED <<passed, handed, advances, fetches>>
    /\ UNCHANGED <<log_streams, all_names>>

\* describe_log_streams or filter_log_events raises: nothing in fetch_logs
\* or tail catches it.
FetchRaises(what) ==
    /\ pc = "fetch_logs"
    /\ Raise(what)
    /\ UNCHANGED <<args, resolution, interrupts, utcnow, targets, bounds, last_since,
                   new_logs, call, clock, output,
                   history>>
    /\ UNCHANGED <<passed, handed, advances, fetches>>
    /\ UNCHANGED <<log_streams, all_names>>

\* Line 324 raises IndexError on a page without streams: nothing catches it.
ListRaises ==
    /\ pc = "fetch_logs"
    /\ ~fetch_log_stream_names(use_paginate, log_streams, start_time, end_time).ok
    /\ Raise("IndexError")
    /\ UNCHANGED <<args, resolution, interrupts, utcnow, targets, bounds, last_since,
                   new_logs, call, clock, output, history>>
    /\ UNCHANGED <<passed, handed, advances, fetches, log_streams, all_names>>

\* The watermark moved as soon as a group is fetched.
FetchReturn_advancing ==
    /\ pc = "fetch_return"
    /\ last_since' = Advanced(events, last_since)
    /\ LET result == SortedByTimestamp(events)
           behind == IF HasToken(response) THEN response.nextToken ELSE <<>>
       IN  IF ~use_set
           THEN /\ new_logs' = result
                /\ missed' = missed \cup Range(behind)
                /\ pc' = "filter"
                /\ UNCHANGED <<log_group_name, gi, call, fetches>>
           ELSE /\ new_logs' = new_logs \o Tagged(result, log_group_name)
                /\ missed' = missed \cup Range(Tagged(behind, log_group_name))
                /\ IF gi < Len(log_group_names)
                   THEN EnterFetch(log_group_names[gi + 1]) /\ gi' = gi + 1
                   ELSE pc' = "sort" /\ UNCHANGED <<log_group_name, gi, call, fetches>>
    /\ UNCHANGED <<error, exit_status, args, resolution, interrupts, utcnow,
                   log_group_names, log_set_name, bounds, 
                   clock, output, passes, renders, slept, pass_since, requests, answered>>
    /\ UNCHANGED <<passed, handed, advances>>
    /\ all_names' = <<>>
    /\ UNCHANGED log_streams

\* Line 398 and the caller's lines 217, 237-240: the sorted events go to
\* new_logs, and the next group of the set is fetched.
FetchReturn ==
    /\ pc = "fetch_return"
    /\ LET result == SortedByTimestamp(events)
           behind == IF HasToken(response) THEN response.nextToken ELSE <<>>
       IN  IF ~use_set
           THEN /\ new_logs' = result
                /\ missed' = missed \cup Range(behind)
                /\ pc' = "filter"
                /\ UNCHANGED <<log_group_name, gi, call, fetches>>
           ELSE /\ new_logs' = new_logs \o Tagged(result, log_group_name)
                /\ missed' = missed \cup Range(Tagged(behind, log_group_name))
                /\ IF gi < Len(log_group_names)
                   THEN EnterFetch(log_group_names[gi + 1]) /\ gi' = gi + 1
                   ELSE pc' = "sort" /\ UNCHANGED <<log_group_name, gi, call, fetches>>
    /\ UNCHANGED <<error, exit_status, args, resolution, interrupts, utcnow,
                   log_group_names, log_set_name, bounds, last_since,
                   clock, output, passes, renders, slept, pass_since, requests, answered>>
    /\ UNCHANGED <<passed, handed, advances>>
    /\ all_names' = <<>>
    /\ UNCHANGED log_streams

\* Line 242.
SortMerged ==
    /\ pc = "sort"
    /\ new_logs' = SortedByTimestamp(new_logs)
    /\ pc' = "filter"
    /\ UNCHANGED <<error, exit_status, args, resolution, interrupts, utcnow, targets,
                   bounds, last_since, call, clock, output,
                   history>>
    /\ UNCHANGED <<passed, handed, advances, fetches>>
    /\ UNCHANGED <<log_streams, all_names>>

\* Line 244.
FilterNew ==
    /\ pc = "filter"
    /\ new_logs' = NewerThan(new_logs, last_since)
    /\ passed' = Newest(new_logs', passed)
    /\ pc' = "print"
    /\ UNCHANGED <<error, exit_status, args, resolution, interrupts, utcnow, targets,
                   bounds, last_since, call, clock, output,
                   history>>
    /\ UNCHANGED <<handed, advances, fetches>>
    /\ UNCHANGED <<log_streams, all_names>>

\* Lines 246-248.
PrintLogs ==
    /\ pc = "print"
    /\ logs' = new_logs
    /\ drawn' = print_logs(new_logs, log_set_name)
    /\ handed' = Newest(new_logs, handed)
    /\ renders' = renders + 1
    /\ pc' = "advance"
    /\ UNCHANGED <<error, exit_status, args, resolution, interrupts, utcnow, targets,
                   bounds, last_since, new_logs, call, clock,
                   passes, slept, pass_since, requests, answered, missed>>
    /\ UNCHANGED <<passed, advances, fetches>>
    /\ UNCHANGED <<log_streams, all_names>>

\* What print_logs can raise: rich refuses a message with unbalanced markup.
RenderErrors == {"MarkupError"}

\* print_logs raises after it has written `n` of its lines: nothing in
\* print_logs or tail catches it.
PrintRaises(what, n) ==
    /\ pc = "print"
    /\ n <= Len(print_logs(new_logs, log_set_name))
    /\ logs' = new_logs
    /\ drawn' = SubSeq(print_logs(new_logs, log_set_name), 1, n)
    /\ handed' = Newest(new_logs, handed)
    /\ Raise(what)
    /\ UNCHANGED <<args, resolution, interrupts, utcnow, targets, bounds, last_since,
                   new_logs, call, clock, history>>
    /\ UNCHANGED <<passed, advances, fetches>>
    /\ UNCHANGED <<log_streams, all_names>>

\* Lines 250-255: the watermark moves and the loop is left or not.  When it
\* is left, tail and cli.handle return None and sys.exit(None) of line 577
\* ends the process with status 0.
Advance ==
    /\ pc = "advance"
    /\ last_since' = Advanced(new_logs, last_since)
    /\ advances' = advances + 1
    /\ pc' = IF Breaks(keep_open, to) THEN "done" ELSE "sleep"
    /\ exit_status' = IF Breaks(keep_open, to) THEN <<0>> ELSE exit_status
    /\ UNCHANGED <<error, args, resolution, interrupts, utcnow, targets, bounds,
                   new_logs, call, clock,
                   output, history>>
    /\ UNCHANGED <<passed, handed, fetches>>
    /\ UNCHANGED <<log_streams, all_names>>

\* Line 257.  What the next pass rebinds before it reads it (new_logs, the
\* locals of fetch_logs) and the record of the pass are dropped here.
Sleep ==
    /\ pc = "sleep"
    /\ passes < MaxPasses
    /\ slept' = slept + 1
    /\ pc' = "loop"
    /\ new_logs' = <<>>
    /\ logs' = <<>>
    /\ drawn' = <<>>
    /\ missed' = {}
    /\ requests' = <<>>
    /\ fetches' = <<>>
    /\ answered' = 0
    /\ start_time' = None
    /\ end_time' = None
    /\ events' = <<>>
    /\ response' = NoResponse
    /\ UNCHANGED <<error, exit_status, args, resolution, interrupts, utcnow, targets,
                   bounds, last_since, clock, passes, renders,
                   pass_since>>
    /\ UNCHANGED <<passed, handed, advances>>
    /\ all_names' = <<>>
    /\ UNCHANGED log_streams

\* Where Ctrl-C can reach the run: at the prompt of find_log_group, and
\* anywhere in the try block of lines 211-257.
Interruptible ==
    {"start", "parse", "loop", "fetch_logs", "fetch_return", "sort", "filter", "print",
     "advance", "sleep"}

\* A handler that tail does not have: the interrupt is taken as any other
\* exception.
KeyboardInterrupt_uncaught ==
    /\ pc \in Interruptible
    /\ Raise("KeyboardInterrupt")
    /\ interrupts' = interrupts + 1
    /\ new_logs' = <<>>
    /\ start_time' = None
    /\ end_time' = None
    /\ events' = <<>>
    /\ response' = NoResponse
    /\ requests' = <<>>
    /\ fetches' = <<>>
    /\ answered' = 0
    /\ missed' = {}
    /\ UNCHANGED <<args, resolution, utcnow, targets, bounds, last_since, clock, output,
                   passes,
                   renders, slept, pass_since>>
    /\ UNCHANGED <<passed, handed, advances>>
    /\ all_names' = <<>>
    /\ UNCHANGED log_streams

\* KeyboardInterrupt is raised.  In the try block lines 258-263 catch it:
\* sys.exit(0) raises SystemExit, which is caught at once, and os._exit(130)
\* ends the process; at the prompt lines 582-584 catch it and sys.exit(130)
\* does.  The locals of the loop are gone with the process.
KeyboardInterrupt ==
    /\ pc \in Interruptible
    /\ pc' = "interrupted"
    /\ exit_status' = <<130>>
    /\ interrupts' = interrupts + 1
    /\ new_logs' = <<>>
    /\ start_time' = None
    /\ end_time' = None
    /\ events' = <<>>
    /\ response' = NoResponse
    /\ requests' = <<>>
    /\ fetches' = <<>>
    /\ answered' = 0
    /\ missed' = {}
    /\ UNCHANGED <<error, args, resolution, utcnow, targets, bounds, last_since, clock,
                   output,
                   passes, renders, slept, pass_since>>
    /\ UNCHANGED <<passed, handed, advances>>
    /\ all_names' = <<>>
    /\ UNCHANGED log_streams

Next ==
    \/ \E identifier_ \in Identifiers, typed \in Choices, exact_ \in BOOLEAN,
          use_set_ \in BOOLEAN, keep_open_ \in BOOLEAN, to_ \in Tos, since_ \in Sinces :
            tail(identifier_, typed, since_, exact_, use_set_, keep_open_, to_, FALSE)
    \/ ParseBounds(0)
    \/ LoopTop
    \/ \E now \in 1..MaxTime, k \in 0..MaxEvents : FetchRound(now, k)
    \/ \E what \in BackendErrors : FetchRaises(what)
    \/ FetchReturn
    \/ SortMerged
    \/ FilterNew
    \/ PrintLogs
    \/ \E what \in RenderErrors, n \in 0..MaxEvents : PrintRaises(what, n)
    \/ Advance
    \/ Sleep
    \/ KeyboardInterrupt

Spec == Init /\ [][Next]_vars

\* ------------------------------------------- the resolution of the target
\* tail is called with every identifier and flag, and the operator answers
\* the prompt of find_log_group in every way.
NextResolve ==
    \E identifier_ \in ResolveIdentifiers, typed \in ResolveChoices, exact_ \in BOOLEAN,
       use_set_ \in BOOLEAN, keep_open_ \in BOOLEAN, to_ \in Tos, since_ \in Sinces :
        tail(identifier_, typed, since_, exact_, use_set_, keep_open_, to_, FALSE)

SpecResolve == Init /\ [][NextResolve]_vars

\* ------------------------------------------------- the parsing of --since
\* Durations of (whole number)(unit) pairs, with one unit and with several,
\* with a plus sign and without.
DurationTexts ==
    {<<"1", "s">>, <<"0", "s">>, <<"9", "0", "s">>, <<"1", "m", "3", "0", "s">>,
     <<"1", "h", "3", "0", "m">>, <<"1", "5", "0", "0", "m", "s">>, <<"+", "1", "s">>,
     <<"1", "h">>, <<"1", "m", "1", "s", "5", "0", "0", "m", "s">>, <<"1", "d">>}

\* Durations with a fraction and with a minus sign.
OtherDurationTexts == {<<"1", ".", "5", "s">>, <<"-", "1", "s">>}

\* Texts nothing should take: no number, no unit, an unknown unit, a number
\* float() refuses, a number after the last pair, a letter before the first,
\* a blank between two pairs, the empty text.
BadTexts ==
    {<<"b", "o", "g", "u", "s">>, <<>>, <<"1", "x">>, <<"1", ".", "2", ".", "3", "s">>,
     <<"1", "s", "5">>, <<"x", "1", "s">>, <<"1", "s", " ", "1", "m">>, <<"5">>,
     <<"s">>, <<".", "s">>}

\* Absolute times: two well-formed ones, one with a blank for the slash, one
\* with a month 13.
AbsoluteTexts ==
    {
     <<"1", "9", "7", "0", "-", "0", "1", "-", "0", "1", "/", "0", "0", ":", "0", "0", ":", "0", "5">>,
     <<"1", "9", "7", "0", "-", "0", "1", "-", "0", "1", " ", "0", "0", ":", "0", "0", ":", "0", "5">>,
     <<"1", "9", "7", "0", "-", "1", "3", "-", "0", "1", "/", "0", "0", ":", "0", "0", ":", "0", "0">>,
     <<"1", "9", "7", "0", "-", "0", "1", "-", "0", "2", "/", "0", "1", ":", "0", "0", ":", "0", "0">>}

ParseTexts == DurationTexts \cup ZeroForms \cup OtherDurationTexts \cup BadTexts \cup AbsoluteTexts

\* int(time.time()) when tail is called, and what datetime.now(utc) shows
\* below the second.
ParseClocks == {2, 7200}
ParseParts == {0, 1, 500, 999}

\* `awslog gb -e --since TEXT` at line 212: the identifier is taken as the
\* name of the group, and TEXT is about to be parsed.
InitParse ==
    \E text \in ParseTexts, seconds \in ParseClocks :
        /\ pc = "parse"
        /\ error = ""
        /\ exit_status = <<>>
        /\ exact = TRUE
        /\ use_set = FALSE
        /\ keep_open = TRUE
        /\ use_paginate = FALSE
        /\ to = NoTo
        /\ since = text
        /\ utcnow = None
        /\ identifier = "gb"
        /\ choice = ""
        /\ listed = <<>>
        /\ prompts = 0
        /\ resolves = 0
        /\ interrupts = 0
        /\ log_group_name = "gb"
        /\ log_group_names = <<>>
        /\ log_set_name = ""
        /\ gi = 0
        /\ since_stamp = None
        /\ to_stamp = None
        /\ last_since = None
        /\ new_logs = <<>>
        /\ start_time = None
        /\ end_time = None
        /\ events = <<>>
        /\ response = NoResponse
        /\ clock = seconds
        /\ logs = <<>>
        /\ drawn = <<>>
        /\ passes = 0
        /\ renders = 0
        /\ slept = 0
        /\ pass_since = None
        /\ requests = <<>>
        /\ answered = 0
        /\ missed = {}
        /\ passed = None
        /\ handed = None
        /\ advances = 0
        /\ log_streams = OneStream
        /\ all_names = <<>>
        /\ fetches = <<>>

\* Lines 212-214 at every reading of the clock.
NextParse == \E part \in ParseParts : ParseBounds(part)

SpecParse == InitParse /\ [][NextParse]_vars

\* ------------------------------------------------ the merge of a log set
\* since_stamp of `--since 1s` given at clock 2.
StartStamp == string_to_timestamp(<<"1", "s">>, 2 * Ms).ts * Ms

\* What time.time() returns in the fetches of the pass the merge belongs to.
MergeClock == MaxPerGroup + 3

\* The events the groups of the set may hold in [since, now].
MergeEvents ==
    [timestamp : {t * Ms : t \in 1..MergeClock} \cap StartStamp..(MergeClock * Ms),
     message : Messages]

\* The request fetch_logs made for a group: one request, answered by one
\* page.
Fetched(name) ==
    [logGroupName |-> name, startTime |-> StartStamp, endTime |-> MergeClock * Ms,
     now |-> MergeClock, nextToken |-> FALSE]

\* The first pass of `awslog set1 -s --since 1s` at line 242: both groups of
\* the set were fetched (lines 228-240), each returned at most MaxPerGroup
\* events in timestamp order, and new_logs is their concatenation in the order
\* of log_group_names.
InitMerge ==
    \E a \in OrderedSeqs(MergeEvents, MaxPerGroup),
       b \in OrderedSeqs(MergeEvents, MaxPerGroup) :
        /\ pc = "sort"
        /\ error = ""
        /\ exit_status = <<>>
        /\ exact = FALSE
        /\ use_set = TRUE
        /\ keep_open = TRUE
        /\ use_paginate = FALSE
        /\ to = NoTo
        /\ since = <<"1", "s">>
        /\ utcnow = 2 * Ms
        /\ identifier = "set1"
        /\ choice = ""
        /\ listed = <<>>
        /\ prompts = 0
        /\ resolves = 1
        /\ interrupts = 0
        /\ log_group_name = "gb"
        /\ log_group_names = get_log_group_names_from_log_set("set1").names
        /\ log_set_name = "set1"
        /\ gi = 2
        /\ since_stamp = StartStamp
        /\ to_stamp = None
        /\ last_since = StartStamp
        /\ new_logs = Tagged(SortedByTimestamp(a), "ga") \o Tagged(SortedByTimestamp(b), "gb")
        /\ start_time = StartStamp
        /\ end_time = MergeClock * Ms
        /\ events = b
        /\ response = [set |-> TRUE, events |-> b, nextToken |-> <<>>]
        /\ clock = MergeClock
        /\ logs = <<>>
        /\ drawn = <<>>
        /\ passes = 1
        /\ renders = 0
        /\ slept = 0
        /\ pass_since = StartStamp
        /\ requests = <<Fetched("ga"), Fetched("gb")>>
        /\ answered = Len(a) + Len(b)
        /\ missed = {}
        /\ passed = None
        /\ handed = None
        /\ advances = 0
        /\ log_streams = OneStream
        /\ all_names = <<>>
        /\ fetches = <<[log_group_name |-> "ga", start_time |-> StartStamp, end_time |-> None],
                       [log_group_name |-> "gb", start_time |-> StartStamp, end_time |-> None]>>

\* Lines 242-244 of that pass.
NextMerge ==
    \/ SortMerged
    \/ FilterNew

SpecMerge == InitMerge /\ [][NextMerge]_vars

\* ------------------------------------------------- the rendering of a pass
\* The events of a pass that are newer than the watermark, with every kind
\* of message.
RenderEvents ==
    [timestamp : {t * Ms : t \in 1..MaxTime} \ (0..StartStamp), message : AllMessages]

\* The first pass of `awslog ga -e --since 1s` at line 246, with or without
\* --keep-open False: one request returned the new events on one page, and
\* line 244 kept them all.
InitRender ==
    \E evs \in OrderedSeqs(RenderEvents, MaxEvents), keep_open_ \in BOOLEAN :
        /\ pc = "print"
        /\ error = ""
        /\ exit_status = <<>>
        /\ exact = TRUE
        /\ use_set = FALSE
        /\ keep_open = keep_open_
        /\ use_paginate = FALSE
        /\ to = NoTo
        /\ since = <<"1", "s">>
        /\ utcnow = 2 * Ms
        /\ identifier = "ga"
        /\ choice = ""
        /\ listed = <<>>
        /\ prompts = 0
        /\ resolves = 0
        /\ interrupts = 0
        /\ log_group_name = "ga"
        /\ log_group_names = <<>>
        /\ log_set_name = ""
        /\ gi = 0
        /\ since_stamp = StartStamp
        /\ to_stamp = None
        /\ last_since = StartStamp
        /\ new_logs = NewerThan(SortedByTimestamp(evs), StartStamp)
        /\ start_time = StartStamp
        /\ end_time = MaxTime * Ms
        /\ events = evs
        /\ response = [set |-> TRUE, events |-> evs, nextToken |-> <<>>]
        /\ clock = MaxTime
        /\ logs = <<>>
        /\ drawn = <<>>
        /\ passes = 1
        /\ renders = 0
        /\ slept = 0
        /\ pass_since = StartStamp
        /\ requests = <<[logGroupName |-> "ga", startTime |-> StartStamp,
                         endTime |-> MaxTime * Ms, now |-> MaxTime,
                         nextToken |-> FALSE]>>
        /\ answered = Len(evs)
        /\ missed = {}
        /\ passed = Newest(NewerThan(SortedByTimestamp(evs), StartStamp), None)
        /\ handed = None
        /\ advances = 0
        /\ log_streams = OneStream
        /\ all_names = <<>>
        /\ fetches = <<[log_group_name |-> "ga", start_time |-> StartStamp, end_time |-> None]>>

\* Lines 246-255 of that pass.
NextRender ==
    \/ PrintLogs
    \/ Advance

SpecRender == InitRender /\ [][NextRender]_vars

\* ------------------------------------------ the listing, on every listing
\* When the run of SpecStreams starts, and its lower and upper bounds:
\* `--since 1s`, and `--to 0s` where there is one.
StreamClock == MaxTime
StreamStart == string_to_timestamp(<<"1", "s">>, StreamClock * Ms).ts * Ms
StreamEnd == string_to_timestamp(<<"0", "s">>, StreamClock * Ms).ts * Ms

\* When a stream may have got its first and its last event: before the lower
\* bound, at it, at the upper bound and after it.
StreamTimes == {StreamStart - Ms, StreamStart, StreamEnd, StreamEnd + Ms}

Activities ==
    {a \in [firstEventTimestamp : StreamTimes, lastEventTimestamp : StreamTimes] :
        a.firstEventTimestamp <= a.lastEventTimestamp}

\* orderBy="LastEventTime", descending=True (lines 307-308 and 320).
LastEventDescending(streams) ==
    \A i \in 1..(Len(streams) - 1) :
        streams[i].lastEventTimestamp >= streams[i + 1].lastEventTimestamp

\* The streams a group may have, in the order the backend lists them.
StreamListings ==
    {[i \in 1..Len(f) |-> [logStreamName |-> StreamNames[i],
                           firstEventTimestamp |-> f[i].firstEventTimestamp,
                           lastEventTimestamp |-> f[i].lastEventTimestamp]] :
        f \in {g \in UNION {[1..n -> Activities] : n \in 0..MaxStreams} :
                  LastEventDescending(g)}}

\* The pages of a listing that is cut after the places of `cuts`; a group
\* without streams has one page, without streams.
RECURSIVE PagesOf(_, _)
PagesOf(streams, cuts) ==
    IF streams = <<>>
    THEN <<>>
    ELSE LET k == CHOOSE c \in cuts \cup {Len(streams)} :
                      \A d \in cuts \cup {Len(streams)} : c <= d
         IN  <<SubSeq(streams, 1, k)>> \o
             PagesOf(SubSeq(streams, k + 1, Len(streams)),
                     {c - k : c \in {d \in cuts : d > k}})

Paginations(streams) ==
    IF streams = <<>>
    THEN {<<<<>>>>}
    ELSE {PagesOf(streams, cuts) : cuts \in SUBSET (1..(Len(streams) - 1))}

\* `awslog gb -e -p --since 1s`, with and without `--to 0s`, at the first call
\* of fetch_logs (line 372), for every listing the group may have.
InitStreams ==
    \E streams \in StreamListings, to_ \in Tos :
      \E pages \in Paginations(streams) :
        /\ pc = "fetch_logs"
        /\ error = ""
        /\ exit_status = <<>>
        /\ exact = TRUE
        /\ use_set = FALSE
        /\ keep_open = TRUE
        /\ use_paginate = TRUE
        /\ to = to_
        /\ since = <<"1", "s">>
        /\ utcnow = StreamClock * Ms
        /\ identifier = "gb"
        /\ choice = ""
        /\ listed = <<>>
        /\ prompts = 0
        /\ resolves = 0
        /\ interrupts = 0
        /\ log_group_name = "gb"
        /\ log_group_names = <<>>
        /\ log_set_name = ""
        /\ gi = 0
        /\ since_stamp = StreamStart
        /\ to_stamp = IF to_ = NoTo THEN None ELSE StreamEnd
        /\ last_since = StreamStart
        /\ new_logs = <<>>
        /\ start_time = StreamStart
        /\ end_time = IF to_ = NoTo THEN None ELSE StreamEnd
        /\ events = <<>>
        /\ response = NoResponse
        /\ clock = StreamClock
        /\ logs = <<>>
        /\ drawn = <<>>
        /\ passes = 1
        /\ renders = 0
        /\ slept = 0
        /\ pass_since = StreamStart
        /\ requests = <<>>
        /\ answered = 0
        /\ missed = {}
        /\ passed = None
        /\ handed = None
        /\ advances = 0
        /\ log_streams = pages
        /\ all_names = <<>>
        /\ fetches = <<[log_group_name |-> "gb", start_time |-> StreamStart,
                        end_time |-> IF to_ = NoTo THEN None ELSE StreamEnd]>>

\* Lines 372-396 of that call.
NextStreams ==
    \/ \E now \in 1..MaxTime, k \in 0..MaxEvents : FetchRound(now, k)
    \/ ListRaises

SpecStreams == InitStreams /\ [][NextStreams]_vars

\* ------------------------------------------------------------------ claims
\* C1: the watermark last_since never decreases: after every step, ADVANCE
\* included, it is at least what it was before, whatever the backend
\* returned (nothing, only events at the watermark, events of several
\* groups), and so it is never below since_stamp once that is set.
C1_WatermarkMonotone ==
    [][/\ last_since' >= last_since
       /\ since_stamp' # None => last_since' >= since_stamp']_vars

\* C1 witness: in the second pass the watermark has moved a second time.
C1_Witness ==
    /\ pc = "sleep"
    /\ passes = 2
    /\ pass_since > since_stamp
    /\ last_since > pass_since

\* C2: every event handed to print_logs is newer than the watermark the pass
\* began with; an event at the watermark or below is not handed over, with
\* one group and with a log set.
C2_OnlyNewerHanded ==
    \A i \in 1..Len(logs) : logs[i].timestamp > pass_since

\* C2 witness: in the second pass of a log set the backend returned an event
\* at the watermark again, and the events handed over leave it out.
C2_Witness ==
    /\ pc = "advance"
    /\ use_set
    /\ passes = 2
    /\ pass_since > since_stamp
    /\ logs # <<>>
    /\ \E i \in 1..Len(events) : events[i].timestamp = pass_since

\* C3: no event is skipped for good.  An event the backend reported in this
\* pass that was newer than the watermark the pass began with and was not
\* handed to print_logs must still be newer than the watermark after ADVANCE:
\* line 244 never lets an event at or below the watermark through again.
C3_NoEventSkipped ==
    (pc = "sleep" /\ keep_open /\ to = NoTo) =>
        \A e \in missed :
            (e.timestamp > pass_since /\ e \notin Range(logs)) =>
                e.timestamp > last_since

\* C4: fetch_logs returns only after a page that carries no continuation
\* token, so that its result holds the events of every page.
C4_FetchesEveryPage ==
    pc = "fetch_return" => ~HasToken(response)

\* C5: in log-set mode the merge of line 242 is a stable sort by timestamp:
\* the merged sequence is in non-decreasing timestamp order, it holds exactly
\* the fetched events (a permutation, nothing lost or added), the events of
\* one target keep their relative order, and events of different targets
\* with the same timestamp stand in the order their targets were fetched
\* (A=[10,30], B=[20,25] gives [10,20,25,30]).
GroupIndex(name) == CHOOSE k \in 1..Len(log_group_names) : log_group_names[k] = name

Occurrences(seq, e) == Cardinality({i \in 1..Len(seq) : seq[i] = e})

OfGroup(seq, name) == SelectSeq(seq, LAMBDA e : e.log_group_name = name)

IsStableMerge(before, after) ==
    /\ Len(after) = Len(before)
    /\ IsOrdered(after)
    /\ \A e \in Range(before) \cup Range(after) :
          Occurrences(after, e) = Occurrences(before, e)
    /\ \A name \in Range(log_group_names) :
          OfGroup(after, name) = OfGroup(before, name)
    /\ \A i, j \in 1..Len(after) :
          (i < j /\ after[i].timestamp = after[j].timestamp)
              => GroupIndex(after[i].log_group_name) <= GroupIndex(after[j].log_group_name)

C5_StableMerge ==
    [][(pc = "sort" /\ pc' = "filter") => IsStableMerge(new_logs, new_logs')]_vars

\* The merge of A = [3000, 5000] and B = [3000, 4000] was made: the events
\* of B stand between those of A, and the event of A at the timestamp both
\* hold stands first.
C5_Witness ==
    /\ pc = "filter"
    /\ use_set
    /\ Len(new_logs) = 4
    /\ [i \in 1..4 |-> new_logs[i].log_group_name] = <<"ga", "gb", "gb", "ga">>
    /\ new_logs[1].timestamp = new_logs[2].timestamp
    /\ new_logs[2].timestamp < new_logs[3].timestamp
    /\ new_logs[3].timestamp < new_logs[4].timestamp
    /\ new_logs[1].timestamp > last_since

\* C6: with --to given or with keep_open false the loop runs one pass: one
\* fetch pass, one call of print_logs, and then the run is done; time.sleep
\* is never called and no second pass begins.
C6_SinglePass ==
    (to # NoTo \/ ~keep_open) =>
        /\ passes <= 1
        /\ slept = 0
        /\ pc # "sleep"
        /\ pc = "done" => (passes = 1 /\ renders = 1)

\* C6 witness: a keep-open run with --to is done after one pass that printed.
C6_Witness ==
    /\ pc = "done"
    /\ keep_open
    /\ to # NoTo
    /\ passes = 1
    /\ renders = 1
    /\ logs # <<>>

\* C7: an event whose message holds a Lambda lifecycle marker (START
\* RequestId, END RequestId, REPORT RequestId) is never drawn by RENDER, and
\* still counts for the watermark: when it has the largest timestamp of the
\* new events of a pass, the watermark after ADVANCE is its timestamp.
Markers ==
    {"START RequestId: 1", "END RequestId: 1", "REPORT RequestId: 1",
     "INFO START RequestId: 2"}

C7_MarkersCountButAreNotDrawn ==
    /\ \A i \in 1..Len(drawn) : drawn[i].message \notin Markers
    /\ pc \in {"advance", "sleep", "done"} =>
          Len(drawn) = Cardinality({i \in 1..Len(logs) : logs[i].message \notin Markers})
    /\ pc \in {"sleep", "done"} =>
          \A i \in 1..Len(logs) :
              (/\ logs[i].message \in Markers
               /\ \A j \in 1..Len(logs) : logs[j].timestamp <= logs[i].timestamp)
                  => last_since = logs[i].timestamp

\* A pass handed a plain line and then a newer REPORT line: one line was
\* drawn and the watermark is the timestamp of the REPORT line.
C7_Witness ==
    /\ pc \in {"sleep", "done"}
    /\ Len(logs) = 2
    /\ logs[1].message = "hello"
    /\ logs[2].message = "REPORT RequestId: 1"
    /\ logs[2].timestamp > logs[1].timestamp
    /\ Len(drawn) = 1
    /\ last_since = logs[2].timestamp
    /\ last_since > pass_since

\* C8: once a backend call of fetch_logs has raised, the run is over in the
\* raised state: the watermark is the one the pass began with, print_logs was
\* not called in that pass and nothing is taken up again.
C8_BackendErrorAborts ==
    error \in BackendErrors =>
        /\ pc = "raised"
        /\ last_since = pass_since
        /\ renders = passes - 1
        /\ logs = <<>>
        /\ drawn = <<>>

\* C8 witness: in the second pass of a log set the first group was fetched
\* with an event newer than the watermark and the second fetch raised.
C8_Witness ==
    /\ pc = "raised"
    /\ error = "filter_log_events"
    /\ use_set
    /\ gi = 2
    /\ passes = 2
    /\ \E i \in 1..Len(new_logs) : new_logs[i].timestamp > last_since

\* C9: without --to, every round of one fetch_logs call reads the clock for
\* its upper bound, the rounds after a page with a continuation token
\* included: when the call returns, every page the backend announced has been
\* asked for, each with the time of its own round as endTime.
C9_UpperBoundEachRound ==
    (pc = "fetch_return" /\ to_stamp = None) =>
        /\ \A i \in 1..Len(requests) : requests[i].endTime = requests[i].now * Ms
        /\ \A i \in 1..Len(requests) :
              (requests[i].logGroupName = log_group_name /\ i < Len(requests)) =>
                  requests[i + 1].nextToken
        /\ ~HasToken(response)

\* C10: with exact and use_set both set the run ends with the usage error of
\* line 209 before any group is resolved and before any fetch.
C10_BothFlagsUsageError ==
    (exact /\ use_set /\ pc # "start") =>
        /\ pc = "raised"
        /\ error = "Invalid combination of arguments."
        /\ log_group_names = <<>>
        /\ requests = <<>>

\* C11: find_log_group, for n log groups whose name contains the
\* identifier: n = 0 fails with the no-match error; n = 1 returns that group
\* and does not prompt; n >= 2 prints exactly the n candidates, numbered from
\* 0 in backend order, prompts once, returns candidates[k] for a numeric
\* answer k with 0 <= k < n, and fails with the invalid-choice error for
\* every answer that is not a number, is negative or is n or more.
\* The groups of LogGroups whose name holds the identifier, written out.
Holding ==
    [z |-> <<>>, gb |-> <<"gb">>, a |-> <<"ga", "gab">>, ga |-> <<"ga", "gab">>,
     g |-> <<"ga", "gb", "gab">>, set1 |-> <<>>]

\* The answers that are numerals of a number from 0 on, and the number.
Numeral == [text \in {"0", "1", "2", "5"} |->
               CASE text = "0" -> 0 [] text = "1" -> 1 [] text = "2" -> 2 [] OTHER -> 5]

C11_FindLogGroupCases ==
    (pc # "start" /\ ~exact /\ ~use_set) =>
        LET held == Holding[identifier]
            n == Len(held)
        IN  /\ Len(listed) = n
            /\ \A i \in 1..n : listed[i] = [index |-> i - 1, logGroupName |-> held[i]]
            /\ n = 0 => (pc = "raised" /\ error = "No log groups found" /\ prompts = 0)
            /\ n = 1 => (pc = "parse" /\ error = "" /\ log_group_name = held[1]
                         /\ prompts = 0)
            /\ n >= 2 =>
                  /\ prompts = 1
                  /\ IF choice \in DOMAIN Numeral /\ Numeral[choice] < n
                     THEN pc = "parse" /\ error = ""
                          /\ log_group_name = held[Numeral[choice] + 1]
                     ELSE pc = "raised" /\ error = "Invalid choice"

\* Three groups hold the identifier, they were listed, and the answer 1
\* gave the second of them.
C11_Witness ==
    /\ pc = "parse"
    /\ ~exact /\ ~use_set
    /\ identifier = "g"
    /\ Len(listed) = 3
    /\ prompts = 1
    /\ choice = "1"
    /\ log_group_name = "gb"

\* C12: a keyboard interrupt in the tail loop (in FETCH, in SLEEP or at any
\* other point of it) ends the run at once and cleanly: the process exits
\* with status 130, no error is recorded (no traceback, no error status),
\* the watermark and what was fetched and rendered stay as they were, and no
\* step of the run follows.
C12_InterruptEndsRun ==
    [][/\ interrupts = 0
       /\ interrupts' # interrupts =>
             /\ pc' = "interrupted"
             /\ exit_status' = <<130>>
             /\ error' = ""
             /\ last_since' = last_since
             /\ passes' = passes
             /\ renders' = renders
             /\ slept' = slept
             /\ logs' = logs
             /\ drawn' = drawn]_vars

\* The run was interrupted in the fetch of its second pass, after the first
\* pass had moved the watermark.
C12_Witness ==
    /\ interrupts = 1
    /\ pc = "interrupted"
    /\ exit_status = <<130>>
    /\ error = ""
    /\ passes = 2
    /\ renders = 1
    /\ slept = 1
    /\ last_since > since_stamp

\* C13: string_to_timestamp fails (raises, returns nothing, puts no zero in
\* place) for every text that is not, as a whole, an optional sign and one
\* or more (number)(unit) pairs with known units and nothing between or
\* around them, nor one of 0, +0, -0, nor of the form YYYY-MM-DD/HH:MM:SS:
\* a text with a good pair and characters left over is refused too.
RECURSIVE PairsOnly(_, _)
PairsOnly(text, i) ==
    \/ i > Len(text)
    \/ LET j == RunEnd(text, i, ValueChars)
           k == RunEnd(text, j + 1, Letters)
       IN  /\ j >= i
           /\ k > j
           /\ FloatOk(SubSeq(text, i, j))
           /\ SubSeq(text, j + 1, k) \in KnownUnits
           /\ PairsOnly(text, k + 1)

InGrammar(text) ==
    LET first == IF text # <<>> /\ text[1] \in {"+", "-"} THEN 2 ELSE 1
    IN  first <= Len(text) /\ PairsOnly(text, first)

C13_RejectsAllElse ==
    (pc # "parse" /\ since \notin ZeroForms /\ ~InGrammar(since) /\ ~HasShape(since)) =>
        (pc = "raised" /\ error = "ValueError" /\ since_stamp = None)

\* C14: for every duration text of (whole number, unit) pairs, units mixed or
\* not, string_to_timestamp returns the instant of now less the sum of
\* number times unit size over the pairs, cut to whole seconds (so within
\* one second of now less the total); 0, +0 and -0 are no duration and give
\* the current second.
\* The totals in milliseconds, written out.
TotalWritten(text) ==
    CASE text = <<"1", "s">> -> 1000
      [] text = <<"0", "s">> -> 0
      [] text = <<"9", "0", "s">> -> 90000
      [] text = <<"1", "m", "3", "0", "s">> -> 90000
      [] text = <<"1", "h", "3", "0", "m">> -> 5400000
      [] text = <<"1", "5", "0", "0", "m", "s">> -> 1500
      [] text = <<"+", "1", "s">> -> 1000
      [] text = <<"1", "h">> -> 3600000
      [] text = <<"1", "m", "1", "s", "5", "0", "0", "m", "s">> -> 61500
      [] text = <<"1", "d">> -> 86400000
      [] text \in ZeroForms -> 0

C15_WatermarkIsNewestPassed ==
    [][pc = "advance" =>
          \/ pc' = "interrupted"
          \/ /\ last_since' = IF passed' = None THEN since_stamp' ELSE passed'
             /\ new_logs = <<>> => last_since' = last_since]_vars

\* The second pass of a log set found nothing new after the first had found
\* events: the watermark stays at the newest of them.
C15_Witness ==
    /\ pc = "sleep"
    /\ use_set
    /\ passes = 2
    /\ advances = 2
    /\ new_logs = <<>>
    /\ passed > since_stamp
    /\ last_since = passed
    /\ pass_since = passed

\* C16: the watermark is written at most once per iteration of the loop and
\* only in ADVANCE, after print_logs of that iteration has returned: after
\* line 214 no other step changes it, not the fetches of the groups of a set
\* and not a fetch or a render that raises.
C16_WrittenOnceInAdvance ==
    [][/\ last_since' # last_since =>
             \/ pc = "parse"
             \/ pc = "advance" /\ renders = passes /\ advances = passes - 1
       /\ advances' # advances => pc = "advance" /\ advances' = passes
       /\ error' # "" => last_since' = last_since
       /\ pc' \in {"fetch_logs", "fetch_return", "sort", "filter", "print", "advance"}
             => last_since' = pass_since']_vars

\* The second pass of a log set has moved the watermark a second time.
C16_Witness ==
    /\ pc = "sleep"
    /\ use_set
    /\ advances = 2
    /\ renders = 2
    /\ pass_since > since_stamp
    /\ last_since > pass_since
    /\ Len(fetches) = 2

\* C17: in every pass each resolved target is fetched exactly once, one
\* after the other in resolved order, with start_time the watermark of the
\* start of the pass and end_time the to value (None when --to is absent);
\* all targets of a pass get the same start_time.
Resolved == IF use_set THEN log_group_names ELSE <<log_group_name>>

C17_EachTargetOncePerPass ==
    /\ pc \in {"fetch_logs", "fetch_return"} => Len(fetches) = IF use_set THEN gi ELSE 1
    /\ pc \in {"sort", "filter", "print", "advance", "sleep", "done"}
          => Len(fetches) = Len(Resolved)
    /\ pc \in {"fetch_logs", "fetch_return", "sort", "filter", "print", "advance", "sleep",
               "done"} =>
          \A i \in 1..Len(fetches) :
              fetches[i] = [log_group_name |-> Resolved[i], start_time |-> pass_since,
                            end_time |-> to_stamp]

\* Both groups of the set were fetched in the second pass, from the
\* watermark the first pass had moved.
C17_Witness ==
    /\ pc = "sort"
    /\ use_set
    /\ passes = 2
    /\ pass_since > since_stamp
    /\ Len(fetches) = 2
    /\ fetches[1].log_group_name = "ga"
    /\ fetches[2].log_group_name = "gb"
    /\ fetches[2].start_time = pass_since

\* C20: over a run, what print_logs is given, call after call, is in
\* non-decreasing timestamp order, and every event given in a later pass is
\* strictly newer than every event given in an earlier one: no event is
\* rendered in two passes.
C20_HandedInOrder ==
    [][pc = "print" =>
          /\ IsOrdered(logs')
          /\ \A i \in 1..Len(logs') : handed = None \/ logs'[i].timestamp > handed]_vars

\* The second pass of a log set gave print_logs events after the first had.
C20_Witness ==
    /\ pc = "advance"
    /\ use_set
    /\ passes = 2
    /\ renders = 2
    /\ pass_since > since_stamp
    /\ Len(logs) = 2
    /\ logs[1].log_group_name # logs[2].log_group_name
    /\ logs[1].timestamp > pass_since
    /\ handed = logs[2].timestamp

\* When the first event of any stream of a page was written, and the last.
EarliestActivity(page) ==
    CHOOSE t \in {page[i].firstEventTimestamp : i \in 1..Len(page)} :
        \A i \in 1..Len(page) : t <= page[i].firstEventTimestamp

LatestActivity(page) ==
    CHOOSE t \in {page[i].lastEventTimestamp : i \in 1..Len(page)} :
        \A i \in 1..Len(page) : t >= page[i].lastEventTimestamp

\* The pages before the first one with activity before `lower`.
RECURSIVE PagesBeforeStop(_, _)
PagesBeforeStop(pages, lower) ==
    IF pages = <<>> THEN <<>>
    ELSE IF pages[1] # <<>> /\ Truthy(lower) /\ EarliestActivity(pages[1]) < lower
    THEN <<>>
    ELSE <<pages[1]>> \o PagesBeforeStop(Tail(pages), lower)

\* The streams of the pages that have no activity after `upper`.
RECURSIVE StreamsUpTo(_, _)
StreamsUpTo(pages, upper) ==
    IF pages = <<>> THEN <<>>
    ELSE IF pages[1] # <<>> /\ Truthy(upper) /\ LatestActivity(pages[1]) > upper
    THEN StreamsUpTo(Tail(pages), upper)
    ELSE pages[1] \o StreamsUpTo(Tail(pages), upper)

\* C18: the paginated listing returns, and what it returns are the streams,
\* in the backend's most-recently-active-first order, of the pages that come
\* before the first page whose earliest stream activity predates the lower
\* bound, less the pages whose latest activity is after the upper bound.
C18_PaginatedListing ==
    use_paginate =>
        /\ error # "IndexError"
        /\ pc = "fetch_return" =>
              all_names = NamesOf(StreamsUpTo(PagesBeforeStop(log_streams, start_time),
                                              to_stamp))

\* The streams of the listing whose first-event to last-event interval meets
\* [lower, upper].
InWindow(pages, lower, upper) ==
    {pages[i][j].logStreamName : <<i, j>> \in
        {ij \in (1..Len(pages)) \X (1..MaxStreams) :
            /\ ij[2] <= Len(pages[ij[1]])
            /\ pages[ij[1]][ij[2]].firstEventTimestamp <= upper
            /\ pages[ij[1]][ij[2]].lastEventTimestamp >= lower}}

\* C19: with the paginated listing, every stream whose first-event to
\* last-event interval meets the fetch window is among the names the event
\* query is made with, a stream whose first event predates the lower bound
\* included.
C19_NoWindowStreamLeftOut ==
    (use_paginate /\ pc = "fetch_return") =>
        InWindow(log_streams, start_time, end_time) \subseteq Range(all_names)

\* C21: the identifier is resolved, and the operator asked, only before the
\* first fetch: a step that calls find_log_group or
\* get_log_group_names_from_log_set, prompts, or writes what they gave is
\* taken at the start, before any pass and any request; and once the loop runs
\* no step changes the resolved targets, the log set, `to` or to_stamp.
C21_ResolvedOnceAtStartup ==
    [][/\ (resolves' # resolves \/ prompts' # prompts \/ listed' # listed \/
           choice' # choice \/ identifier' # identifier)
          => (pc = "start" /\ passes = 0 /\ fetches = <<>> /\ requests = <<>>)
       /\ passes >= 1
          => (/\ Resolved' = Resolved
              /\ use_set' = use_set
              /\ log_set_name' = log_set_name
              /\ to' = to
              /\ to_stamp' = to_stamp)]_vars

\* The second pass of a run whose group was chosen at the prompt: the fetch
\* of that pass has been made for the group chosen then.
C21_Witness ==
    /\ pc = "fetch_return"
    /\ passes = 2
    /\ resolves = 1
    /\ prompts = 1
    /\ ~use_set
    /\ log_group_name = listed[IntOf(choice) + 1].logGroupName
    /\ Len(requests) = 1

====
